---- MODULE Spec2Model ----
(***************************************************************************)
(* Streaming bridge of scripts/server.js: the WebSocket session handler,   *)
(* the SSE decoder of streamGateway and the sentence splitter.             *)
(*                                                                         *)
(* Text is a sequence of one-character strings.  An upstream byte stream   *)
(* is a sequence of symbols: "\n", the record prefix "data: " in the two   *)
(* pieces "dat" and "a: ", the sentinel "[DONE]", and a JSON payload       *)
(* written "{" c1 ... cn "}", which stands for                             *)
(*   {"choices":[{"delta":{"content":"c1...cn"}}]}.                        *)
(* Any other payload fails to parse.                                       *)
(***************************************************************************)
EXTENDS Integers, Sequences, FiniteSets, TLC

VARIABLES
    wsState,        \* ws.readyState: "OPEN" or "CLOSED"
    crashed,        \* an exception escaped an event handler: the process is gone
    activeRequest,  \* the connection's activeRequest: 0 (null) or a request id
    nExch,          \* number of exchanges started on the connection
    closure,        \* per exchange: tokenBuffer, sentenceIndex, fullText, done
    req,            \* per upstream request: state, sseBuffer, status, body
    sent,           \* every object ws.send() transmitted, in order
    calls,          \* history: the deltas streamGateway handed to onChunk
    ended,          \* history: Len(calls[e]) at streamGateway's first onDone, or -1
    received        \* history: the inbound frames the message handler was given

vars == <<wsState, crashed, activeRequest, nExch, closure, req, sent, calls, ended, received>>

\* ------------------------------------------------------------------------
\* Characters and strings
\* ------------------------------------------------------------------------

\* \s of the regular expression, and what String.prototype.trim removes
IsSpace(c) == c \in {" ", "\t"}

\* [.!?]
IsTerminator(c) == c \in {".", "!", "?"}

\* [A-Z"“]
IsOpener(c) == c \in {"A", "B", "\""}

\* s.slice(from) with a 0-based index
SliceFrom(s, from) == SubSeq(s, from + 1, Len(s))

\* s.slice(0, to) with a 0-based exclusive end
SliceTo(s, to) == SubSeq(s, 1, IF to < Len(s) THEN to ELSE Len(s))

RECURSIVE TrimLeft(_)
TrimLeft(s) == IF s # <<>> /\ IsSpace(Head(s)) THEN TrimLeft(Tail(s)) ELSE s

RECURSIVE TrimRight(_)
TrimRight(s) ==
    IF s # <<>> /\ IsSpace(s[Len(s)]) THEN TrimRight(SubSeq(s, 1, Len(s) - 1)) ELSE s

\* String.prototype.trim
Trim(s) == TrimRight(TrimLeft(s))

RECURSIVE Flatten(_)
Flatten(ss) == IF ss = <<>> THEN <<>> ELSE Head(ss) \o Flatten(Tail(ss))

\* ------------------------------------------------------------------------
\* Sentence splitter
\* ------------------------------------------------------------------------

\* Length of the whitespace run that starts at 0-based position i
RECURSIVE SpaceRun(_, _)
SpaceRun(s, i) ==
    IF i < Len(s) /\ IsSpace(s[i + 1]) THEN 1 + SpaceRun(s, i + 1) ELSE 0

\* SENTENCE_END with the lookahead (?=[A-Z"“]) left out
SentenceEndAt_AnyFollower(s, i) ==
    IF i < 1 \/ ~IsTerminator(s[i]) THEN -1
    ELSE LET k == SpaceRun(s, i)
         IN  IF k >= 1 /\ i + k < Len(s) THEN k
             ELSE IF i = Len(s) THEN 0
             ELSE -1

\* SENTENCE_END tried at 0-based position i: the length of the match, or -1.
\*   (?<=[.!?])\s+(?=[A-Z"“])  |  (?<=[.!?])$
SentenceEndAt(s, i) ==
    IF i < 1 \/ ~IsTerminator(s[i]) THEN -1
    ELSE LET k == SpaceRun(s, i)
         IN  IF k >= 1 /\ i + k < Len(s) /\ IsOpener(s[i + k + 1]) THEN k
             ELSE IF i = Len(s) THEN 0
             ELSE -1

\* SENTENCE_END.exec(s): the leftmost match as [index, length], index -1 for null
SENTENCE_END(s) ==
    LET hits == {i \in 0..Len(s) : SentenceEndAt(s, i) >= 0}
    IN  IF hits = {} THEN [index |-> -1, length |-> 0]
        ELSE LET i == CHOOSE x \in hits : \A y \in hits : x <= y
             IN  [index |-> i, length |-> SentenceEndAt(s, i)]

RECURSIVE ExtractLoop(_, _)
ExtractLoop(sentences, remaining) ==
    LET match == SENTENCE_END(remaining)
    IN  IF match.index = -1 THEN [sentences |-> sentences, remainder |-> remaining]
        ELSE LET sentence == Trim(SliceTo(remaining, match.index))
             IN  ExtractLoop(
                     IF sentence # <<>> THEN Append(sentences, sentence) ELSE sentences,
                     SliceFrom(remaining, match.index + match.length))

\* extractSentences with the .trim() of line 75 left out
RECURSIVE ExtractLoop_Untrimmed(_, _)
ExtractLoop_Untrimmed(sentences, remaining) ==
    LET match == SENTENCE_END(remaining)
    IN  IF match.index = -1 THEN [sentences |-> sentences, remainder |-> remaining]
        ELSE LET sentence == SliceTo(remaining, match.index)
             IN  ExtractLoop_Untrimmed(
                     IF sentence # <<>> THEN Append(sentences, sentence) ELSE sentences,
                     SliceFrom(remaining, match.index + match.length))

extractSentences_Untrimmed(buffer) == ExtractLoop_Untrimmed(<<>>, buffer)

extractSentences(buffer) == ExtractLoop(<<>>, buffer)

\* ------------------------------------------------------------------------
\* Notifications to the client
\* ------------------------------------------------------------------------
\* Every object has the same fields, so that objects can be compared; ex is
\* history: the exchange whose callback sent the object (0: the validation
\* of an inbound message).

NoError == [message |-> "", status |-> 0, body |-> <<>>]

SentenceMsg(e, text, index) ==
    [type |-> "sentence", text |-> text, index |-> index, fullText |-> <<>>,
     error |-> NoError, ex |-> e]

DoneMsg(e, fullText) ==
    [type |-> "done", text |-> <<>>, index |-> -1, fullText |-> fullText,
     error |-> NoError, ex |-> e]

ErrorMsg(e, err) ==
    [type |-> "error", text |-> <<>>, index |-> -1, fullText |-> <<>>,
     error |-> err, ex |-> e]

\* new Error(message)
Err(message) == [message |-> message, status |-> 0, body |-> <<>>]

\* The part of the state that the callbacks of an exchange read and write
World == [closure |-> closure, activeRequest |-> activeRequest, sent |-> sent,
          calls |-> calls, ended |-> ended]

wsSend(w, obj) ==
    IF wsState = "OPEN" THEN [w EXCEPT !.sent = Append(@, obj)] ELSE w

\* ------------------------------------------------------------------------
\* Callbacks of one exchange (closures of the ws 'message' handler)
\* ------------------------------------------------------------------------

NewClosure == [tokenBuffer |-> <<>>, sentenceIndex |-> 0, fullText |-> <<>>, done |-> FALSE]

\* SendSentences with index: sentenceIndex in place of sentenceIndex++
RECURSIVE SendSentences_NoIncrement(_, _, _)
SendSentences_NoIncrement(w, e, sentences) ==
    IF sentences = <<>> THEN w
    ELSE SendSentences_NoIncrement(
             wsSend(w, SentenceMsg(e, Head(sentences), w.closure[e].sentenceIndex)),
             e, Tail(sentences))

\* for (const sentence of sentences) wsSend(..., index: sentenceIndex++)
RECURSIVE SendSentences(_, _, _)
SendSentences(w, e, sentences) ==
    IF sentences = <<>> THEN w
    ELSE SendSentences(
             [wsSend(w, SentenceMsg(e, Head(sentences), w.closure[e].sentenceIndex))
                 EXCEPT !.closure[e].sentenceIndex = @ + 1],
             e, Tail(sentences))

\* onChunk with fullText = token in place of fullText += token
onChunk_Overwrites(w, e, token) ==
    IF w.closure[e].done THEN w
    ELSE LET r == extractSentences(w.closure[e].tokenBuffer \o token)
         IN  SendSentences(
                 [w EXCEPT !.closure[e].fullText = token,
                           !.closure[e].tokenBuffer = r.remainder],
                 e, r.sentences)

\* onChunk without "if (done) return"
onChunk_Unguarded(w, e, token) ==
    LET r == extractSentences(w.closure[e].tokenBuffer \o token)
    IN  SendSentences(
            [w EXCEPT !.closure[e].fullText = @ \o token,
                      !.closure[e].tokenBuffer = r.remainder],
            e, r.sentences)

onChunk(w, e, token) ==
    IF w.closure[e].done THEN w
    ELSE LET r == extractSentences(w.closure[e].tokenBuffer \o token)
         IN  SendSentences(
                 [w EXCEPT !.closure[e].fullText = @ \o token,
                           !.closure[e].tokenBuffer = r.remainder],
                 e, r.sentences)

\* onDone without the flush of the remaining buffer
onDone_NoFlush(w, e) ==
    IF w.closure[e].done THEN w
    ELSE wsSend([w EXCEPT !.closure[e].done = TRUE, !.activeRequest = 0],
                DoneMsg(e, w.closure[e].fullText))

\* onDone without "done = true"
onDone_KeepsOpen(w, e) ==
    IF w.closure[e].done THEN w
    ELSE LET w1 == [w EXCEPT !.activeRequest = 0]
             remaining == Trim(w1.closure[e].tokenBuffer)
             w2 == IF remaining # <<>>
                   THEN [wsSend(w1, SentenceMsg(e, remaining, w1.closure[e].sentenceIndex))
                            EXCEPT !.closure[e].sentenceIndex = @ + 1]
                   ELSE w1
         IN  wsSend(w2, DoneMsg(e, w2.closure[e].fullText))

onDone(w, e) ==
    IF w.closure[e].done THEN w
    ELSE LET w1 == [w EXCEPT !.closure[e].done = TRUE, !.activeRequest = 0]
             remaining == Trim(w1.closure[e].tokenBuffer)
             w2 == IF remaining # <<>>
                   THEN [wsSend(w1, SentenceMsg(e, remaining, w1.closure[e].sentenceIndex))
                            EXCEPT !.closure[e].sentenceIndex = @ + 1]
                   ELSE w1
         IN  wsSend(w2, DoneMsg(e, w2.closure[e].fullText))

\* onError without the wsSend
onError_Silent(w, e, err) ==
    IF w.closure[e].done THEN w
    ELSE [w EXCEPT !.closure[e].done = TRUE, !.activeRequest = 0]

\* onError without "if (done) return"
onError_Unguarded(w, e, err) ==
    wsSend([w EXCEPT !.closure[e].done = TRUE, !.activeRequest = 0], ErrorMsg(e, err))

onError(w, e, err) ==
    IF w.closure[e].done THEN w
    ELSE wsSend([w EXCEPT !.closure[e].done = TRUE, !.activeRequest = 0],
                ErrorMsg(e, err))

\* ------------------------------------------------------------------------
\* streamGateway: the SSE decoder
\* ------------------------------------------------------------------------

\* 'data: '
DATA_PREFIX == <<"dat", "a: ">>

startsWith(line, prefix) ==
    Len(line) >= Len(prefix) /\ SubSeq(line, 1, Len(prefix)) = prefix

\* s.split('\n'): the pieces between the newlines, at least one
RECURSIVE SplitLoop(_, _, _)
SplitLoop(s, cur, acc) ==
    IF s = <<>> THEN Append(acc, cur)
    ELSE IF Head(s) = "\n" THEN SplitLoop(Tail(s), <<>>, Append(acc, cur))
    ELSE SplitLoop(Tail(s), Append(cur, Head(s)), acc)

Split(s) == SplitLoop(s, <<>>, <<>>)

IsContentChar(c) == c \notin {"{", "}", "\n", "dat", "a: ", "[DONE]"}

\* JSON.parse(data) followed by parsed.choices?.[0]?.delta?.content:
\* ok is FALSE when JSON.parse throws, content is <<>> when there is none
ParseDelta(data) ==
    IF /\ Len(data) >= 2
       /\ data[1] = "{"
       /\ data[Len(data)] = "}"
       /\ \A i \in 2..(Len(data) - 1) : IsContentChar(data[i])
    THEN [ok |-> TRUE, content |-> SubSeq(data, 2, Len(data) - 1)]
    ELSE [ok |-> FALSE, content |-> <<>>]

\* streamGateway calling onChunk(delta)
EmitChunk(w, e, delta) ==
    onChunk([w EXCEPT !.calls[e] = Append(@, delta)], e, delta)

\* streamGateway calling onDone()
EmitDone(w, e) ==
    onDone([w EXCEPT !.ended[e] = IF @ = -1 THEN Len(w.calls[e]) ELSE @], e)

\* the body of the try block: parse one record and hand its delta on
ParseRecord(w, e, data) ==
    LET parsed == ParseDelta(data)
    IN  IF parsed.ok /\ parsed.content # <<>> THEN EmitChunk(w, e, parsed.content) ELSE w

\* the loop of the 'data' handler with no try block around the parse: a
\* record that fails to parse ends the handler run
RECURSIVE ProcessLines_StopsOnMalformed(_, _, _)
ProcessLines_StopsOnMalformed(w, e, lines) ==
    IF lines = <<>> THEN w
    ELSE LET line == Head(lines)
             data == Trim(SliceFrom(line, Len(DATA_PREFIX)))
         IN  IF ~startsWith(line, DATA_PREFIX)
             THEN ProcessLines_StopsOnMalformed(w, e, Tail(lines))
             ELSE IF data = <<"[DONE]">> THEN EmitDone(w, e)
             ELSE IF ~ParseDelta(data).ok THEN w
             ELSE ProcessLines_StopsOnMalformed(ParseRecord(w, e, data), e, Tail(lines))

\* for (const line of lines) { ... } of the 'data' handler
RECURSIVE ProcessLines(_, _, _)
ProcessLines(w, e, lines) ==
    IF lines = <<>> THEN w
    ELSE LET line == Head(lines)
             data == Trim(SliceFrom(line, Len(DATA_PREFIX)))
         IN  IF ~startsWith(line, DATA_PREFIX) THEN ProcessLines(w, e, Tail(lines))
             ELSE IF data = <<"[DONE]">> THEN EmitDone(w, e)
             ELSE ProcessLines(ParseRecord(w, e, data), e, Tail(lines))

\* The two bytes of one two-byte UTF-8 character, the character they encode,
\* and the replacement character of the decoder
LEAD_BYTE == "0xC3"
CONTINUATION_BYTE == "0xA9"
TWO_BYTE_CHAR == "U+00E9"
REPLACEMENT_CHAR == "U+FFFD"

\* chunk.toString(): the UTF-8 decoding of one Buffer on its own.  A lead
\* byte with its continuation byte gives the character; a lead byte with no
\* continuation byte after it, and a continuation byte with no lead byte
\* before it, each give U+FFFD.  Every other symbol stands for ASCII text.
RECURSIVE toString(_)
toString(chunk) ==
    IF chunk = <<>> THEN <<>>
    ELSE IF Head(chunk) = LEAD_BYTE
         THEN IF Len(chunk) >= 2 /\ chunk[2] = CONTINUATION_BYTE
              THEN <<TWO_BYTE_CHAR>> \o toString(SliceFrom(chunk, 2))
              ELSE <<REPLACEMENT_CHAR>> \o toString(Tail(chunk))
    ELSE IF Head(chunk) = CONTINUATION_BYTE
         THEN <<REPLACEMENT_CHAR>> \o toString(Tail(chunk))
    ELSE <<Head(chunk)>> \o toString(Tail(chunk))

\* res.on('data') of a 200 response: the world and the new sseBuffer
OnResData(w, e, sseBuffer, chunk) ==
    LET lines == Split(sseBuffer \o toString(chunk))
    IN  [world |-> ProcessLines(w, e, SubSeq(lines, 1, Len(lines) - 1)),
         sseBuffer |-> lines[Len(lines)]]

\* the 'end' handler without its parse of the residual buffer
OnResEnd_DropsResidual(w, e, sseBuffer) == EmitDone(w, e)

\* res.on('end') of a 200 response
OnResEnd(w, e, sseBuffer) ==
    IF startsWith(sseBuffer, DATA_PREFIX)
    THEN LET data == Trim(SliceFrom(sseBuffer, Len(DATA_PREFIX)))
         IN  IF data = <<"[DONE]">> THEN EmitDone(w, e)
             ELSE EmitDone(ParseRecord(w, e, data), e)
    ELSE EmitDone(w, e)

\* ------------------------------------------------------------------------
\* Upstream requests
\* ------------------------------------------------------------------------
\* state of a request:
\*   "requesting"  issued, no response yet
\*   "streaming"   a 200 response is being read
\*   "errbody"     a non-200 response is being read
\*   "aborting"    destroyed; the 'error' event that destroy() causes is due
\*   "closed"      no further event

\* wire is history: the bytes the response has delivered so far
NewRequest ==
    [state |-> "requesting", sseBuffer |-> <<>>, status |-> 0, body |-> <<>>,
     wire |-> <<>>]

IsOpen(r) == r.state \in {"requesting", "streaming", "errbody"}

\* req.destroy(): the socket is closed, so no 'data' or 'end' follows.  Node
\* then emits 'error' (socket hang up) on a request that has no response and
\* 'error' (aborted) on a response that has not ended; the non-200 response
\* has no 'error' listener, and Node drops the event.
Destroy(r) ==
    IF r.state \in {"requesting", "streaming"} THEN [r EXCEPT !.state = "aborting"]
    ELSE IF r.state = "errbody" THEN [r EXCEPT !.state = "closed"]
    ELSE r

\* body.slice(0, 500)
BodyLimit == 500

GatewayError(status, body) ==
    [message |-> "Gateway", status |-> status, body |-> SliceTo(body, BodyLimit)]

\* Assign the world a handler has produced
Commit(w) ==
    /\ closure' = w.closure
    /\ activeRequest' = w.activeRequest
    /\ sent' = w.sent
    /\ calls' = w.calls
    /\ ended' = w.ended

\* ------------------------------------------------------------------------
\* Event handlers
\* ------------------------------------------------------------------------

\* What JSON.parse(data.toString()) and the checks of the handler see in an
\* inbound frame: json is "invalid" (parse throws), "null" or "object";
\* type is msg.type; text is "missing", "empty", "string" or "number".
Frame(json, type, text) == [json |-> json, type |-> type, text |-> text]

\* msg.type !== 'text' || !msg.text
Rejected(msg) == msg.type # "text" \/ msg.text \in {"missing", "empty"}

\* the handler throws: msg.type of null, text.slice of a number
Throws(msg) ==
    \/ msg.json = "null"
    \/ msg.json = "object" /\ ~Rejected(msg) /\ msg.text = "number"

\* ws.on('message')
WsMessage(msg) ==
    /\ ~crashed
    /\ wsState = "OPEN"
    /\ received' = Append(received, msg)
    /\ IF msg.json = "invalid" THEN
           /\ Commit(wsSend(World, ErrorMsg(0, Err("Invalid JSON"))))
           /\ UNCHANGED <<wsState, crashed, nExch, req>>
       ELSE IF Throws(msg) THEN
           /\ crashed' = TRUE
           /\ UNCHANGED <<wsState, activeRequest, nExch, closure, req, sent, calls, ended>>
       ELSE IF Rejected(msg) THEN
           /\ Commit(wsSend(World, ErrorMsg(0, Err("Expected text"))))
           /\ UNCHANGED <<wsState, crashed, nExch, req>>
       ELSE
           /\ nExch' = nExch + 1
           /\ req' = Append(IF activeRequest # 0
                            THEN [req EXCEPT ![activeRequest] = Destroy(@)]
                            ELSE req,
                            NewRequest)
           /\ closure' = Append(closure, NewClosure)
           /\ calls' = Append(calls, <<>>)
           /\ ended' = Append(ended, -1)
           /\ activeRequest' = nExch + 1
           /\ UNCHANGED <<wsState, crashed, sent>>

\* the response callback without its status check
Response_IgnoresStatus(e, status) ==
    /\ ~crashed
    /\ e \in 1..nExch
    /\ req[e].state = "requesting"
    /\ req' = [req EXCEPT ![e].state = "streaming", ![e].status = status]
    /\ UNCHANGED <<wsState, crashed, activeRequest, nExch, closure, sent, calls, ended, received>>

\* the response callback of transport.request
Response(e, status) ==
    /\ ~crashed
    /\ e \in 1..nExch
    /\ req[e].state = "requesting"
    /\ req' = [req EXCEPT ![e].state = IF status = 200 THEN "streaming" ELSE "errbody",
                          ![e].status = status]
    /\ UNCHANGED <<wsState, crashed, activeRequest, nExch, closure, sent, calls, ended, received>>

\* res.on('data') of a 200 response
ResData(e, chunk) ==
    /\ ~crashed
    /\ e \in 1..nExch
    /\ req[e].state = "streaming"
    /\ LET r == OnResData(World, e, req[e].sseBuffer, chunk)
       IN  /\ Commit(r.world)
           /\ req' = [req EXCEPT ![e].sseBuffer = r.sseBuffer,
                                 ![e].wire = @ \o chunk]
    /\ UNCHANGED <<wsState, crashed, nExch, received>>

\* res.on('end') of a 200 response
ResEnd(e) ==
    /\ ~crashed
    /\ e \in 1..nExch
    /\ req[e].state = "streaming"
    /\ Commit(OnResEnd(World, e, req[e].sseBuffer))
    /\ req' = [req EXCEPT ![e].state = "closed"]
    /\ UNCHANGED <<wsState, crashed, nExch, received>>

\* res.on('data') of a non-200 response
ErrBodyData(e, c) ==
    /\ ~crashed
    /\ e \in 1..nExch
    /\ req[e].state = "errbody"
    /\ req' = [req EXCEPT ![e].body = @ \o toString(c), ![e].wire = @ \o c]
    /\ UNCHANGED <<wsState, crashed, activeRequest, nExch, closure, sent, calls, ended, received>>

\* res.on('end') of a non-200 response
ErrBodyEnd(e) ==
    /\ ~crashed
    /\ e \in 1..nExch
    /\ req[e].state = "errbody"
    /\ Commit(onError(World, e, GatewayError(req[e].status, req[e].body)))
    /\ req' = [req EXCEPT ![e].state = "closed"]
    /\ UNCHANGED <<wsState, crashed, nExch, received>>

\* A transport failure: req.on('error') fires; when a 200 response is being
\* read the socket's close then aborts the response, whose 'error' is due.
TransportError(e) ==
    /\ ~crashed
    /\ e \in 1..nExch
    /\ IsOpen(req[e])
    /\ Commit(onError(World, e, Err("transport")))
    /\ req' = [req EXCEPT ![e].state = IF @ = "streaming" THEN "aborting" ELSE "closed"]
    /\ UNCHANGED <<wsState, crashed, nExch, received>>

\* the 'timeout' handler with req.destroy() alone
ReqTimeout_DestroyOnly(e) ==
    /\ ~crashed
    /\ e \in 1..nExch
    /\ IsOpen(req[e])
    /\ req' = [req EXCEPT ![e] = Destroy(@)]
    /\ UNCHANGED <<wsState, crashed, activeRequest, nExch, closure, sent, calls, ended, received>>

\* req.on('timeout')
ReqTimeout(e) ==
    /\ ~crashed
    /\ e \in 1..nExch
    /\ IsOpen(req[e])
    /\ Commit(onError(World, e, Err("Gateway request timed out")))
    /\ req' = [req EXCEPT ![e] = Destroy(@)]
    /\ UNCHANGED <<wsState, crashed, nExch, received>>

\* The 'error' event of a destroyed request, or of its aborted response
\* (req.on('error', onError), res.on('error', onError))
AbortError(e) ==
    /\ ~crashed
    /\ e \in 1..nExch
    /\ req[e].state = "aborting"
    /\ Commit(onError(World, e, Err("aborted")))
    /\ req' = [req EXCEPT ![e].state = "closed"]
    /\ UNCHANGED <<wsState, crashed, nExch, received>>

\* ws.on('close')
WsClose ==
    /\ ~crashed
    /\ wsState = "OPEN"
    /\ wsState' = "CLOSED"
    /\ req' = IF activeRequest # 0 THEN [req EXCEPT ![activeRequest] = Destroy(@)] ELSE req
    /\ activeRequest' = 0
    /\ UNCHANGED <<crashed, nExch, closure, sent, calls, ended, received>>

Init ==
    /\ wsState = "OPEN"
    /\ crashed = FALSE
    /\ activeRequest = 0
    /\ nExch = 0
    /\ closure = <<>>
    /\ req = <<>>
    /\ sent = <<>>
    /\ calls = <<>>
    /\ ended = <<>>
    /\ received = <<>>

\* ------------------------------------------------------------------------
\* Inputs
\* ------------------------------------------------------------------------

ValidFrame == Frame("object", "text", "string")

Frames ==
    { Frame("invalid", "", "missing"),
      Frame("null", "", "missing"),
      Frame("object", "ping", "string"),
      Frame("object", "text", "missing"),
      Frame("object", "text", "empty"),
      Frame("object", "text", "number"),
      ValidFrame }

IsValid(msg) == msg.json = "object" /\ ~Rejected(msg) /\ ~Throws(msg)

\* one record with a content increment, and the sentinel record
Record(delta) == DATA_PREFIX \o <<"{">> \o delta \o <<"}", "\n">>
DoneRecord == DATA_PREFIX \o <<"[DONE]", "\n">>

Statuses == {200, 500}

\* ------------------------------------------------------------------------
\* The session under every interleaving of client and upstream events
\* ------------------------------------------------------------------------

MaxExchanges == 2
MaxDeltas == 1

Chunks == { Record(<<"A", ".", " ", "B">>), DoneRecord }

\* bodies of a non-200 response: plain text, and bytes that read as a stream
ErrBodies == { <<"x">>, Record(<<"A", ".", " ", "B">>) \o DoneRecord }

\* the content increments of a request are bounded, and the sentinel comes
\* once
MayReceive(e, chunk, maxDeltas) ==
    IF chunk = DoneRecord THEN ended[e] = -1 ELSE Len(calls[e]) < maxDeltas

Next ==
    \/ nExch < MaxExchanges /\ WsMessage(ValidFrame)
    \/ \E e \in 1..nExch, status \in Statuses : Response(e, status)
    \/ \E e \in 1..nExch, chunk \in Chunks :
          MayReceive(e, chunk, MaxDeltas) /\ ResData(e, chunk)
    \/ \E e \in 1..nExch : ResEnd(e)
    \/ \E e \in 1..nExch, c \in ErrBodies : req[e].body = <<>> /\ ErrBodyData(e, c)
    \/ \E e \in 1..nExch : ErrBodyEnd(e)
    \/ \E e \in 1..nExch : TransportError(e)
    \/ \E e \in 1..nExch : ReqTimeout(e)
    \/ \E e \in 1..nExch : AbortError(e)
    \/ WsClose

Spec == Init /\ [][Next]_vars

\* The same events with one more exchange on the connection
MaxDeepExchanges == 3

DeepNext ==
    \/ nExch < MaxDeepExchanges /\ WsMessage(ValidFrame)
    \/ \E e \in 1..nExch, status \in Statuses : Response(e, status)
    \/ \E e \in 1..nExch, chunk \in Chunks :
          MayReceive(e, chunk, MaxDeltas) /\ ResData(e, chunk)
    \/ \E e \in 1..nExch : ResEnd(e)
    \/ \E e \in 1..nExch : ErrBodyEnd(e)
    \/ \E e \in 1..nExch : TransportError(e)
    \/ \E e \in 1..nExch : ReqTimeout(e)
    \/ \E e \in 1..nExch : AbortError(e)
    \/ WsClose

DeepSpec == Init /\ [][DeepNext]_vars

\* The same events under the assumption of C7: an open upstream request does
\* not stay open for ever; it ends, fails, or its READ_TIMEOUT expires.
UpstreamEnds(e) ==
    \/ ResEnd(e)
    \/ ErrBodyEnd(e)
    \/ TransportError(e)
    \/ ReqTimeout(e)

\* the events of Next, each request receiving at most one content increment
FairNext ==
    \/ nExch < MaxExchanges /\ WsMessage(ValidFrame)
    \/ \E e \in 1..nExch, status \in Statuses : Response(e, status)
    \/ \E e \in 1..nExch, chunk \in Chunks :
          MayReceive(e, chunk, 1) /\ ResData(e, chunk)
    \/ \E e \in 1..nExch : ResEnd(e)
    \/ \E e \in 1..nExch : req[e].body = <<>> /\ ErrBodyData(e, <<"x">>)
    \/ \E e \in 1..nExch : ErrBodyEnd(e)
    \/ \E e \in 1..nExch : TransportError(e)
    \/ \E e \in 1..nExch : ReqTimeout(e)
    \/ \E e \in 1..nExch : AbortError(e)
    \/ WsClose

FairSpec ==
    Init /\ [][FairNext]_vars /\ \A e \in 1..MaxExchanges : WF_vars(UpstreamEnds(e))

\* ------------------------------------------------------------------------
\* One exchange fed with every short sequence of content increments
\* ------------------------------------------------------------------------

MaxTextDeltas == 3

TextChars == {"a", "A", ".", " "}

\* the increments of one or two characters
TextDeltas ==
    {<<c>> : c \in TextChars} \cup {<<c, d>> : c \in TextChars, d \in TextChars}

TextNext ==
    \/ nExch = 0 /\ WsMessage(ValidFrame)
    \/ \E e \in 1..nExch : Response(e, 200)
    \/ \E e \in 1..nExch, d \in TextDeltas :
          Len(calls[e]) < MaxTextDeltas /\ ResData(e, Record(d))
    \/ \E e \in 1..nExch : ended[e] = -1 /\ ResData(e, DoneRecord)
    \/ \E e \in 1..nExch : ResEnd(e)

TextSpec == Init /\ [][TextNext]_vars

\* ------------------------------------------------------------------------
\* Every kind of inbound frame, while exchanges run
\* ------------------------------------------------------------------------

MaxRejected == 1

NumRejected == Cardinality({i \in 1..Len(sent) : sent[i].ex = 0})

FrameNext ==
    \/ \E msg \in Frames :
          /\ IsValid(msg) => nExch < MaxExchanges
          /\ (~IsValid(msg) /\ ~Throws(msg)) => NumRejected < MaxRejected
          /\ WsMessage(msg)
    \/ \E e \in 1..nExch, status \in Statuses : Response(e, status)
    \/ \E e \in 1..nExch, chunk \in Chunks :
          MayReceive(e, chunk, MaxDeltas) /\ ResData(e, chunk)
    \/ \E e \in 1..nExch : ResEnd(e)
    \/ \E e \in 1..nExch : ErrBodyEnd(e)
    \/ \E e \in 1..nExch : TransportError(e)
    \/ \E e \in 1..nExch : ReqTimeout(e)
    \/ \E e \in 1..nExch : AbortError(e)
    \/ WsClose

FrameSpec == Init /\ [][FrameNext]_vars

\* ------------------------------------------------------------------------
\* One exchange whose response arrives as whole records
\* ------------------------------------------------------------------------

MaxLines == 3

\* a record whose JSON is cut short
MalformedRecord == DATA_PREFIX \o <<"{", "b", "\n">>

\* a record whose content is one two-byte character
Utf8Record == DATA_PREFIX \o <<"{", LEAD_BYTE, CONTINUATION_BYTE, "}", "\n">>

\* the line that separates two events of the stream
BlankLine == <<"\n">>

RecordKinds ==
    { Record(<<"A", ".">>), Record(<<"b">>), Record(<<>>), Utf8Record,
      MalformedRecord, BlankLine, DoneRecord }

\* chunks of one record and of two records
RecordChunks == RecordKinds \cup {r \o q : r \in RecordKinds, q \in RecordKinds}

NumLines(bytes) == Len(SelectSeq(bytes, LAMBDA c : c = "\n"))

RecordNext ==
    \/ nExch = 0 /\ WsMessage(ValidFrame)
    \/ \E e \in 1..nExch : Response(e, 200)
    \/ \E e \in 1..nExch, chunk \in RecordChunks :
          /\ NumLines(req[e].wire \o chunk) <= MaxLines
          /\ ResData(e, chunk)
    \/ \E e \in 1..nExch : ResEnd(e)

RecordSpec == Init /\ [][RecordNext]_vars

\* ------------------------------------------------------------------------
\* One exchange whose response arrives cut into chunks at any byte
\* ------------------------------------------------------------------------

MaxStreamRecords == 3

StreamRecords == { Record(<<"A", ".">>), Utf8Record, MalformedRecord, DoneRecord }

\* the byte streams of at most n records
RECURSIVE Streams(_)
Streams(n) ==
    IF n = 0 THEN {<<>>}
    ELSE Streams(n - 1) \cup {s \o r : s \in Streams(n - 1), r \in StreamRecords}

\* the chunks that may follow the bytes received: any further piece of a stream
NextChunks(wire) ==
    UNION { {SubSeq(s, Len(wire) + 1, n) : n \in (Len(wire) + 1)..Len(s)} :
            s \in {t \in Streams(MaxStreamRecords) :
                       Len(t) > Len(wire) /\ SubSeq(t, 1, Len(wire)) = wire} }

DecodeNext ==
    \/ nExch = 0 /\ WsMessage(ValidFrame)
    \/ \E e \in 1..nExch : Response(e, 200)
    \/ \E e \in 1..nExch : \E chunk \in NextChunks(req[e].wire) : ResData(e, chunk)
    \/ \E e \in 1..nExch : ResEnd(e)

DecodeSpec == Init /\ [][DecodeNext]_vars

\* ------------------------------------------------------------------------
\* One exchange whose first increment is any short text
\* ------------------------------------------------------------------------

MaxBufferLen == 4

SplitChars == {"a", "A", ".", "?", " ", "\""}

\* the texts of 1 to n characters
RECURSIVE Buffers(_)
Buffers(n) ==
    IF n = 0 THEN {}
    ELSE {<<c>> : c \in SplitChars} \cup
         {Append(b, c) : b \in Buffers(n - 1), c \in SplitChars}

SplitNext ==
    \/ nExch = 0 /\ WsMessage(ValidFrame)
    \/ \E e \in 1..nExch : Response(e, 200)
    \/ \E e \in 1..nExch :
          /\ calls[e] = <<>>
          /\ \E buffer \in Buffers(MaxBufferLen) : ResData(e, Record(buffer))

SplitSpec == Init /\ [][SplitNext]_vars

\* ------------------------------------------------------------------------
\* Notifications of one exchange
\* ------------------------------------------------------------------------

IsTerminal(n) == n.type \in {"done", "error"}

\* positions in sent of the notifications of exchange e
Of(e) == {i \in 1..Len(sent) : sent[i].ex = e}

Terminals(e) == {i \in Of(e) : IsTerminal(sent[i])}

Sentences(e) == {i \in Of(e) : sent[i].type = "sentence"}

\* the notifications that the step sends
Fresh == (Len(sent) + 1)..Len(sent')

\* ------------------------------------------------------------------------
\* Claims
\* ------------------------------------------------------------------------

\* C1: an exchange delivers at most one terminal notification, a 'done' or
\* an 'error' and never both, whatever upstream callbacks follow the first.
C1_AtMostOneTerminal == \A e \in 1..nExch : Cardinality(Terminals(e)) <= 1

\* a timeout ended an exchange whose response was being read, and the 'error'
\* of the destroyed request has since called onError again
C1_Witness ==
    \E e \in 1..nExch :
        /\ req[e].status = 200
        /\ req[e].state = "closed"
        /\ \E i \in Terminals(e) : sent[i].error.message = "Gateway request timed out"

\* C2: once a later valid message has started the next exchange, the
\* superseded exchange delivers no 'done' and no 'error': every terminal
\* notification that is sent belongs to the latest exchange.
C2_SupersededSilent ==
    [][\A i \in Fresh : IsTerminal(sent'[i]) => sent'[i].ex \in {0, nExch'}]_vars

\* C3: at most one upstream request of the connection is live (issued, not
\* destroyed, not ended) for an exchange that has not terminated.
C3_AtMostOneActive ==
    Cardinality({e \in 1..nExch : IsOpen(req[e]) /\ ~closure[e].done}) <= 1

\* C4: once exchange k+1 has started, no 'sentence' of exchange k or of an
\* earlier exchange is sent: every sentence sent belongs to the latest exchange.
C4_NoInterleaving ==
    [][\A i \in Fresh : sent'[i].type = "sentence" => sent'[i].ex = nExch']_vars

\* C5: the sentence notifications of one exchange carry the indices 0, 1, 2,
\* ... in the order sent, the flush sentence included, and every exchange
\* starts again at 0.
C5_IndicesSequential ==
    \A i \in 1..Len(sent) :
        sent[i].type = "sentence" =>
            sent[i].index =
                Cardinality({j \in 1..(i - 1) :
                                sent[j].type = "sentence" /\ sent[j].ex = sent[i].ex})

\* a second exchange has sent a sentence and its flush sentence after the
\* first exchange sent a sentence
C5_Witness ==
    \E e \in 2..nExch :
        /\ Sentences(1) # {}
        /\ Cardinality(Sentences(e)) >= 2
        /\ \E i \in Terminals(e) : sent[i].type = "done"

\* C6: after the 'done' or 'error' of an exchange no 'sentence' of that
\* exchange is sent, even when content arrives after the sentinel.
C6_TerminalLast ==
    \A i \in 1..Len(sent) : \A j \in (i + 1)..Len(sent) :
        (sent[i].ex # 0 /\ sent[j].ex = sent[i].ex /\ IsTerminal(sent[i]))
            => sent[j].type # "sentence"

\* the decoder handed a content increment to onChunk after the 'done'
C6_Witness ==
    \E e \in 1..nExch :
        /\ \E i \in Terminals(e) : sent[i].type = "done"
        /\ ended[e] >= 0
        /\ Len(calls[e]) > ended[e]

\* the texts of the sentence notifications of exchange e, in the order sent
RECURSIVE TextsOf(_, _)
TextsOf(e, log) ==
    IF log = <<>> THEN <<>>
    ELSE IF Head(log).ex = e /\ Head(log).type = "sentence"
         THEN <<Head(log).text>> \o TextsOf(e, Tail(log))
         ELSE TextsOf(e, Tail(log))

\* texts.join(' ')
RECURSIVE JoinSpace(_)
JoinSpace(texts) ==
    IF texts = <<>> THEN <<>>
    ELSE IF Len(texts) = 1 THEN Head(texts)
    ELSE Head(texts) \o <<" ">> \o JoinSpace(Tail(texts))

\* full is the texts in order with nothing but whitespace (possibly none)
\* before, between and after them
RECURSIVE SeparatedBySpace(_, _)
SeparatedBySpace(full, texts) ==
    LET rest == TrimLeft(full)
    IN  IF texts = <<>> THEN rest = <<>>
        ELSE /\ startsWith(rest, Head(texts))
             /\ SeparatedBySpace(SliceFrom(rest, Len(Head(texts))), Tail(texts))

\* C7: an exchange on a connection that stays open, not superseded by a
\* later valid message, eventually delivers a 'done' or an 'error'.
C7_EventuallyTerminal ==
    \A e \in 1..MaxExchanges :
        [](nExch >= e =>
              <>(Terminals(e) # {} \/ nExch > e \/ wsState # "OPEN" \/ crashed))

\* the latest exchange of an open connection had no terminal notification
\* until its request timed out during the response, and now has its 'error'
C7_Witness ==
    /\ wsState = "OPEN"
    /\ nExch >= 1
    /\ req[nExch].status = 200
    /\ req[nExch].state = "aborting"
    /\ \E i \in Terminals(nExch) : sent[i].error.message = "Gateway request timed out"

\* C8 as claimed: for a completed exchange the sentence texts joined with
\* single spaces equal the fullText of its 'done', both trimmed.
C8_SingleSpaceJoin ==
    \A i \in 1..Len(sent) :
        sent[i].type = "done" =>
            Trim(JoinSpace(TextsOf(sent[i].ex, sent))) = Trim(sent[i].fullText)

\* C8 amended: for a completed exchange the fullText of its 'done' is the
\* sentence texts in index order, separated, preceded and followed by the
\* reply's own whitespace only (possibly none, possibly several characters).
C8_SeparatedByWhitespace ==
    \A i \in 1..Len(sent) :
        sent[i].type = "done" =>
            SeparatedBySpace(sent[i].fullText, TextsOf(sent[i].ex, sent))

\* a completed exchange with three sentences, split over three increments
C8_Witness ==
    \E i \in 1..Len(sent) :
        /\ sent[i].type = "done"
        /\ Len(TextsOf(sent[i].ex, sent)) = 3
        /\ Len(calls[sent[i].ex]) = 3

\* C9: the fullText of an exchange's 'done' is the concatenation, in arrival
\* order, of the increments the decoder handed over before its stream end.
C9_FullTextIsDeltas ==
    \A i \in 1..Len(sent) :
        sent[i].type = "done" =>
            sent[i].fullText =
                Flatten(SubSeq(calls[sent[i].ex], 1, ended[sent[i].ex]))

\* a 'done' whose fullText is made of two increments, with a third increment
\* that arrived after the sentinel
C9_Witness ==
    \E i \in 1..Len(sent) :
        /\ sent[i].type = "done"
        /\ ended[sent[i].ex] = 2
        /\ Len(calls[sent[i].ex]) = 3
        /\ Len(sent[i].fullText) >= 3

\* the frames C10 is about: not valid JSON, a type other than "text", or a
\* text field that is missing or empty
C10_Covers(msg) == msg.json = "invalid" \/ Rejected(msg)

\* C10: such a frame yields exactly one 'error' notification, issues no
\* upstream request and leaves the session state as it was.
C10_InvalidFrameRejected ==
    [][(Len(received') = Len(received) + 1 /\ C10_Covers(received'[Len(received')]))
          => /\ Len(sent') = Len(sent) + 1
             /\ sent'[Len(sent')].type = "error"
             /\ sent'[Len(sent')].ex = 0
             /\ UNCHANGED <<wsState, crashed, activeRequest, nExch, closure, req>>]_vars

\* C11: a response with a status other than 200 gives the exchange exactly
\* one 'error' and neither a 'sentence' nor a 'done', whatever bytes its body
\* holds: the body is never decoded, and the error that the end of the body
\* raises carries the status and the body.
C11_NonSuccessOneError ==
    \A e \in 1..nExch :
        req[e].status \notin {0, 200} =>
            /\ Sentences(e) = {}
            /\ calls[e] = <<>>
            /\ Cardinality(Terminals(e)) <= 1
            /\ \A i \in Terminals(e) :
                  /\ sent[i].type = "error"
                  /\ sent[i].error.message = "Gateway" =>
                        /\ sent[i].error.status = req[e].status
                        /\ sent[i].error.body = req[e].body
            /\ (closure[e].done /\ wsState = "OPEN") =>
                  Cardinality(Terminals(e)) = 1

\* a 500 response whose body reads as a content record and a sentinel, and
\* the 'error' that its end raised
C11_Witness ==
    \E e \in 1..nExch :
        /\ req[e].status = 500
        /\ req[e].state = "closed"
        /\ req[e].body = Record(<<"A", ".", " ", "B">>) \o DoneRecord
        /\ \E i \in Terminals(e) : sent[i].error.message = "Gateway"

\* the increments of exchange e that reached its callback before its stream
\* end
Effective(e) ==
    SubSeq(calls[e], 1, IF ended[e] = -1 THEN Len(calls[e]) ELSE ended[e])

\* the lines that the bytes of a response hold, each with its "\n" removed;
\* the bytes after the last "\n" are no line yet
CompleteLines(bytes) ==
    LET lines == Split(toString(bytes)) IN SubSeq(lines, 1, Len(lines) - 1)

\* the payload of a record line
Payload(line) == Trim(SliceFrom(line, Len(DATA_PREFIX)))

IsSentinel(line) == startsWith(line, DATA_PREFIX) /\ Payload(line) = <<"[DONE]">>

\* a well-formed record that bears content
BearsContent(line) ==
    /\ startsWith(line, DATA_PREFIX)
    /\ ParseDelta(Payload(line)).ok
    /\ ParseDelta(Payload(line)).content # <<>>

\* the lines that precede the first sentinel
RECURSIVE BeforeSentinel(_)
BeforeSentinel(lines) ==
    IF lines = <<>> \/ IsSentinel(Head(lines)) THEN <<>>
    ELSE <<Head(lines)>> \o BeforeSentinel(Tail(lines))

\* the content of the content-bearing records among the lines, in order
ContentsOf(lines) ==
    LET bearing == SelectSeq(lines, BearsContent)
    IN  [i \in 1..Len(bearing) |-> ParseDelta(Payload(bearing[i])).content]

\* C12: the increments that reach the exchange are exactly the contents of
\* the well-formed content-bearing records that precede the sentinel, in
\* their order; a malformed record gives no increment, no 'error', and does
\* not end the exchange.
C12_MalformedSkipped ==
    \A e \in 1..nExch :
        req[e].status = 200 =>
            LET lines == CompleteLines(req[e].wire)
                before == BeforeSentinel(lines)
            IN  /\ Effective(e) = ContentsOf(before)
                /\ closure[e].fullText = Flatten(ContentsOf(before))
                /\ \A i \in Terminals(e) : sent[i].type = "done"
                /\ closure[e].done =>
                      req[e].state = "closed" \/ Len(before) < Len(lines)
                /\ ~crashed

\* a malformed record, then a content record in the same chunk or a later one,
\* then the sentinel: the exchange is complete with the content
C12_Witness ==
    \E e \in 1..nExch :
        /\ req[e].wire = MalformedRecord \o Record(<<"b">>) \o DoneRecord
        /\ \E i \in Terminals(e) : sent[i].fullText = <<"b">>

\* the run of the decoder and the callbacks of exchange e when the bytes its
\* response has delivered arrive as one chunk (followed by the end of the
\* response when the response has ended)
SingleChunk(e) ==
    LET fresh == [closure |-> [closure EXCEPT ![e] = NewClosure],
                  activeRequest |-> e,
                  sent |-> <<>>,
                  calls |-> [calls EXCEPT ![e] = <<>>],
                  ended |-> [ended EXCEPT ![e] = -1]]
        r == OnResData(fresh, e, <<>>, req[e].wire)
    IN  IF req[e].state = "closed" THEN OnResEnd(r.world, e, r.sseBuffer) ELSE r.world

\* C13 as claimed: however the bytes of a response are cut into chunks, the
\* increments that reach the exchange, its fullText and its notifications
\* equal those of the same bytes arriving as a single chunk.
C13_ChunkingIndependent ==
    \A e \in 1..nExch :
        (req[e].status = 200 /\ req[e].state \in {"streaming", "closed"}) =>
            LET w == SingleChunk(e)
            IN  /\ Effective(e) =
                      SubSeq(w.calls[e], 1,
                             IF w.ended[e] = -1 THEN Len(w.calls[e]) ELSE w.ended[e])
                /\ closure[e].fullText = w.closure[e].fullText
                /\ SelectSeq(sent, LAMBDA n : n.ex = e) = w.sent

\* the sentences that the increments give when they pass, one after the
\* other, through the buffer of an exchange, and the buffer that is left
RECURSIVE Segment(_, _)
Segment(tokens, buffer) ==
    IF tokens = <<>> THEN [sentences |-> <<>>, remainder |-> buffer]
    ELSE LET r == extractSentences(buffer \o Head(tokens))
             rest == Segment(Tail(tokens), r.remainder)
         IN  [sentences |-> r.sentences \o rest.sentences, remainder |-> rest.remainder]

\* C15: at the end of a stream the trimmed remainder, when not empty, is
\* sent as one last 'sentence' with the next index, right before the 'done',
\* whether or not it ends in punctuation; an empty remainder adds no
\* sentence, and an exchange with no increment has a 'done' with an empty
\* fullText and no sentence.
C15_FlushAtEnd ==
    \A i \in 1..Len(sent) :
        sent[i].type = "done" =>
            LET e == sent[i].ex
                r == Segment(Effective(e), <<>>)
                remaining == Trim(r.remainder)
            IN  /\ remaining # <<>> =>
                      /\ i > 1
                      /\ sent[i - 1] = SentenceMsg(e, remaining, Len(r.sentences))
                      /\ TextsOf(e, sent) = Append(r.sentences, remaining)
                /\ remaining = <<>> => TextsOf(e, sent) = r.sentences
                /\ Effective(e) = <<>> => (sent[i].fullText = <<>> /\ Sentences(e) = {})

\* a 'done' that follows a flushed sentence of index 1 with no terminator at
\* its end
C15_Witness ==
    \E i \in 2..Len(sent) :
        /\ sent[i].type = "done"
        /\ sent[i - 1].type = "sentence"
        /\ sent[i - 1].index = 1
        /\ ~IsTerminator(sent[i - 1].text[Len(sent[i - 1].text)])

\* C16: once the sentinel line of a response has been decoded, the exchange
\* is complete with a 'done' as its last notification, and its increments,
\* its sentences and its fullText are those of the records before the
\* sentinel: no record after it, in the same chunk, in a later chunk or in
\* the residual buffer, adds to them.
C16_NothingAfterSentinel ==
    \A e \in 1..nExch :
        LET lines == CompleteLines(req[e].wire)
            before == BeforeSentinel(lines)
        IN  (req[e].status = 200 /\ Len(before) < Len(lines)) =>
                /\ closure[e].done
                /\ ended[e] = Len(ContentsOf(before))
                /\ closure[e].fullText = Flatten(Effective(e))
                /\ wsState = "OPEN" =>
                      \E i \in Of(e) :
                          /\ sent[i] = DoneMsg(e, Flatten(Effective(e)))
                          /\ Terminals(e) = {i}
                          /\ \A j \in Of(e) : j <= i
                          /\ TextsOf(e, SubSeq(sent, 1, i)) =
                                LET r == Segment(Effective(e), <<>>)
                                IN  r.sentences \o
                                    (IF Trim(r.remainder) # <<>>
                                     THEN <<Trim(r.remainder)>> ELSE <<>>)

\* a sentinel, then a content record in a later chunk: the decoder handed
\* the record's content over, and the 'done' has an empty fullText
C16_Witness ==
    \E e \in 1..nExch :
        /\ req[e].wire = DoneRecord \o Record(<<"A", ".">>)
        /\ ended[e] = 0
        /\ calls[e] = << <<"A", ".">> >>
        /\ \E i \in Terminals(e) : sent[i] = DoneMsg(e, <<>>)

\* C18: when a response ends with no sentinel seen, the residual buffer gets
\* one parse: the content of a final record with no "\n" after it is applied
\* as an increment (fullText, segmentation) before the 'done'; a residual
\* that does not parse is dropped and the 'done' follows with no 'error'.
C18_ResidualParsed ==
    [][\A e \in 1..nExch :
          (/\ req[e].state = "streaming" /\ req'[e].state = "closed"
           /\ ended[e] = -1 /\ wsState = "OPEN")
          => LET residual == req[e].sseBuffer
                 parsed == ParseDelta(Payload(residual))
                 delta == IF startsWith(residual, DATA_PREFIX) /\ parsed.ok
                          THEN parsed.content ELSE <<>>
                 r == extractSentences(closure[e].tokenBuffer \o delta)
                 texts == r.sentences \o (IF Trim(r.remainder) # <<>>
                                          THEN <<Trim(r.remainder)>> ELSE <<>>)
             IN  /\ calls'[e] = IF delta # <<>> THEN Append(calls[e], delta) ELSE calls[e]
                 /\ ended'[e] = Len(calls'[e])
                 /\ closure'[e].fullText = closure[e].fullText \o delta
                 /\ Len(sent') = Len(sent) + Len(texts) + 1
                 /\ \A k \in 1..Len(texts) :
                       sent'[Len(sent) + k] =
                           SentenceMsg(e, texts[k], closure[e].sentenceIndex + k - 1)
                 /\ sent'[Len(sent')] = DoneMsg(e, closure[e].fullText \o delta)]_vars

\* an ended response whose last record had no "\n" after it, and the 'done'
\* that carries the record's content
C18_Witness ==
    \E e \in 1..nExch :
        /\ req[e].state = "closed"
        /\ req[e].sseBuffer = DATA_PREFIX \o <<"{", "A", ".", "}">>
        /\ NumLines(req[e].wire) = 1
        /\ \E i \in Terminals(e) :
              /\ sent[i].type = "done"
              /\ Len(sent[i].fullText) = 4

\* C14 as claimed: after the close of the connection no exchange that has
\* not terminated has a live upstream request.
C14_CloseCancels ==
    wsState = "CLOSED" =>
        /\ activeRequest = 0
        /\ \A e \in 1..nExch : ~(IsOpen(req[e]) /\ ~closure[e].done)

\* C17: the expiry of the read timeout acts as a transport error does.  An
\* exchange that has terminated sends nothing more, whatever event reaches
\* it; a timeout 'error' is the single notification of its step, terminates
\* the exchange, clears activeRequest and leaves the request destroyed; and
\* every event that takes the open request of an unterminated exchange out
\* of service on an open connection terminates the exchange with exactly one
\* terminal notification, an 'error' unless a 200 response was being read.
C17_TimeoutAsError ==
    [][\A e \in 1..nExch :
          LET mine == {i \in Fresh : sent'[i].ex = e}
          IN  /\ closure[e].done => mine = {}
              /\ (\E i \in mine : /\ sent'[i].type = "error"
                                  /\ sent'[i].error.message = "Gateway request timed out")
                    => /\ ~closure[e].done /\ closure'[e].done
                       /\ Len(sent') = Len(sent) + 1
                       /\ activeRequest' = 0
                       /\ IsOpen(req[e]) /\ req'[e] = Destroy(req[e])
              /\ (/\ IsOpen(req[e]) /\ ~IsOpen(req'[e]) /\ ~closure[e].done
                  /\ nExch' = nExch /\ wsState' = "OPEN")
                    => /\ closure'[e].done
                       /\ activeRequest' = 0
                       /\ Cardinality({i \in mine : IsTerminal(sent'[i])}) = 1
                       /\ IsTerminal(sent'[Len(sent')]) /\ sent'[Len(sent')].ex = e
                       /\ req[e].state # "streaming" => sent'[Len(sent')].type = "error"]_vars

\* a timeout while the body of a 500 response was being read: the exchange
\* has its timeout 'error' and its request is closed
C17_Witness ==
    \E e \in 1..nExch :
        /\ req[e].status = 500
        /\ req[e].state = "closed"
        /\ \E i \in Terminals(e) : sent[i].error.message = "Gateway request timed out"

\* position q of s ends a sentence: a terminator at the end of s, or a
\* terminator followed by whitespace and then a capital or an opening quote
Boundary(s, q) ==
    /\ q \in 1..Len(s)
    /\ IsTerminator(s[q])
    /\ \/ q = Len(s)
       \/ \E k \in (q + 1)..(Len(s) - 1) :
              /\ \A j \in (q + 1)..k : IsSpace(s[j])
              /\ IsOpener(s[k + 1])

\* the positions of s where the sentences end when they are laid over s from
\* position from on, whitespace skipped before each; 0 where they do not fit
RECURSIVE EndsIn(_, _, _)
EndsIn(s, sentences, from) ==
    IF sentences = <<>> THEN {}
    ELSE LET p == from + SpaceRun(s, from - 1)
             q == p + Len(Head(sentences)) - 1
         IN  IF q <= Len(s) /\ SubSeq(s, p, q) = Head(sentences)
             THEN {q} \cup EndsIn(s, Tail(sentences), q + 1)
             ELSE {0}

NonSpace(s) == SelectSeq(s, LAMBDA c : ~IsSpace(c))

\* C19: of the first increment of an exchange, taken as the buffer: every
\* sentence sent is trimmed, not empty and ends in '.', '!' or '?'; the
\* sentences end exactly at the boundaries of the buffer; the remainder kept
\* has no boundary; and the sentences followed by the remainder hold the
\* buffer's non-whitespace characters in order.
C19_BoundaryRule ==
    \A e \in 1..nExch :
        (Len(calls[e]) = 1 /\ ~closure[e].done) =>
            LET buffer == calls[e][1]
                sentences == TextsOf(e, sent)
                remainder == closure[e].tokenBuffer
            IN  /\ \A k \in 1..Len(sentences) :
                      /\ sentences[k] # <<>>
                      /\ Trim(sentences[k]) = sentences[k]
                      /\ IsTerminator(sentences[k][Len(sentences[k])])
                /\ EndsIn(buffer, sentences, 1) = {q \in 1..Len(buffer) : Boundary(buffer, q)}
                /\ \A q \in 1..Len(remainder) : ~Boundary(remainder, q)
                /\ NonSpace(Flatten(sentences) \o remainder) = NonSpace(buffer)
                /\ sentences = extractSentences(buffer).sentences
                /\ remainder = extractSentences(buffer).remainder

\* a buffer of two sentences, the first one ending before an opening quote
C19_Witness ==
    \E e \in 1..nExch :
        /\ calls[e] = << <<"?", " ", "\"", ".">> >>
        /\ TextsOf(e, sent) = << <<"?">>, <<"\"", ".">> >>
        /\ closure[e].tokenBuffer = <<>>

\* C20 as claimed: while the connection is open and the latest exchange has
\* not terminated, activeRequest holds the handle of that exchange.
C20_TracksLatest ==
    (wsState = "OPEN" /\ ~crashed /\ nExch >= 1 /\ ~closure[nExch].done) =>
        activeRequest = nExch

====
